---------------------------- MODULE Spec2Model ----------------------------
(***************************************************************************)
(* A model of the MYE experiment tooling:                                  *)
(*   src/lqs_integration.py      LQSIntegration   (listing quality score)  *)
(*   src/amazon_mye_automation.py AmazonMYEAutomation (platform session)   *)
(*   src/mye_experiment_runner.py MYEExperimentRunner (lifecycle)          *)
(*                                                                         *)
(* Numbers.  The code computes scores in binary floating point.  Every     *)
(* dimension score is an integer and every weight a whole number of        *)
(* hundredths, so the model carries the overall score as an integer number *)
(* of hundredths of a point (70.0 is 7000).  Rates and lifts are carried   *)
(* the same way, in hundredths of a percent.                               *)
(*                                                                         *)
(* Texts.  A text (a title, a bullet) is represented by what the code      *)
(* observes of it: its length, whether it holds one of the formatting      *)
(* characters, and which lexicon words and banned phrases occur in its     *)
(* lower-cased form.                                                       *)
(***************************************************************************)
EXTENDS Integers, Sequences, FiniteSets, TLC

VARIABLES
    \* ---- LQSIntegration under test (ScoreSpec)
    content,        \* the listing_data handed to the score engine
    lqs_result,     \* what calculate_lqs returned for it, or NoValue
    validation,     \* what validate_for_mye returned for it, or NoValue
    score_log,      \* the calculate_lqs calls made so far (DeterminismSpec)
    \* ---- AmazonMYEAutomation's analysis under test (AnalysisSpec)
    analysed_metrics,   \* the metrics handed to determine_winner
    winner_analysis,    \* what determine_winner returned for them, or NoValue
    \* ---- MYEExperimentRunner (Spec)
    files,          \* the experiments/ directory: file stem -> contents
    last,           \* the lifecycle operation that ran last, and its outcome
    calls,          \* the platform calls the last operation made, in order
    playwright,     \* the automation driver of the last session
    browser,        \* the browser of the last session
    \* ---- two collect_metrics calls in flight at once (RaceSpec)
    callers         \* each caller's position in collect_metrics and its locals

vars == <<content, lqs_result, validation, score_log, analysed_metrics, winner_analysis,
          files, last, calls, playwright, browser, callers>>

NoValue == [none |-> TRUE]

\* the two callers of collect_metrics, each a process of its own
Callers == {"first", "second"}

\* a caller that has not called yet
Idle == [pc |-> "idle", metrics |-> NoValue, analysis |-> NoValue,
         data |-> NoValue, entry |-> NoValue]

NoCallers == [p \in Callers |-> Idle]

-----------------------------------------------------------------------------
(* Bounds *)

\* the longest bullet list of a listing content
MaxBullets == 3
\* the longest metrics history a record grows to
MaxHistory == 2
\* the most calculate_lqs calls followed on one engine
MaxCalls == 3

-----------------------------------------------------------------------------
(* Arithmetic helpers *)

RECURSIVE SumSeq(_)
SumSeq(s) == IF s = <<>> THEN 0 ELSE Head(s) + SumSeq(Tail(s))

Min(a, b) == IF a <= b THEN a ELSE b

\* n/d rounded to the nearest integer, ties to the even one (Python's round
\* on a value that is exactly representable); d > 0, n of either sign.
RoundHalfEven(n, d) ==
    LET q == n \div d
        r == n % d
    IN  IF 2 * r > d \/ (2 * r = d /\ q % 2 = 1) THEN q + 1 ELSE q

\* round(x, 1) of a score given in hundredths: a multiple of ten hundredths.
Round1(x) == RoundHalfEven(x, 10) * 10

-----------------------------------------------------------------------------
(* Listing content *)

usp_keywords == {"unique", "patented", "exclusive", "only", "first", "proven"}
pain_point_keywords == {"solve", "eliminate", "prevent", "avoid", "reduce", "improve"}
banned_terms == {"#1", "best seller", "free shipping", "100% guarantee"}

\* A text of `len` characters; sep: one of "|", ",", "-" occurs in it;
\* words: the lexicon words occurring in it; banned: the banned phrases
\* occurring in it.
Text(len, sep, words, banned) ==
    [len |-> len, sep |-> sep, words |-> words, banned |-> banned]

TitleInputs ==
    { Text(3, FALSE, {}, {}),       \* "Bad"
      Text(10, FALSE, {}, {}),      \* "Headphones", "Test Title"
      Text(80, TRUE, {}, {}),
      Text(81, TRUE, {}, {}),
      Text(82, TRUE, {}, {}),       \* the title of test_full_experiment_workflow
      Text(99, FALSE, {}, {}),
      Text(100, FALSE, {}, {}),
      Text(100, TRUE, {}, {}),
      Text(120, TRUE, {}, {"#1"}),
      Text(120, TRUE, {}, {"#1", "best seller"}),
      Text(180, TRUE, {}, {}),
      Text(181, FALSE, {}, {}),
      Text(200, TRUE, {}, {}),
      Text(201, TRUE, {}, {}) }

BulletInputs ==
    { Text(12, FALSE, {"improve"}, {}),      \* a short bullet, one pain-point word
      Text(250, FALSE, {"unique", "solve"}, {}),
      Text(251, TRUE, {"unique", "patented", "only", "solve", "eliminate", "prevent"}, {}),
      Text(250, FALSE, {}, {"#1"}),
      Text(251, FALSE, {"exclusive", "proven", "first"}, {}),
      Text(60, TRUE, {"proven", "first", "reduce"}, {"free shipping"}) }

BoundedSeq(S, n) == UNION { [1..k -> S] : k \in 0..n }

\* listing_data: title, bullets, and `joined`: the banned phrases that occur
\* in title + " " + " ".join(bullets) only across a join.
ContentInputs ==
    { c \in [ title : TitleInputs,
              bullets : BoundedSeq(BulletInputs, MaxBullets),
              joined : {{}, {"best seller"}} ] :
        c.bullets # <<>> \/ c.joined = {} }

-----------------------------------------------------------------------------
(* LQSIntegration *)

\* 70.0, in hundredths
MYE_THRESHOLD == 7000

DimensionNames ==
    << "keyword_optimization", "usp_effectiveness", "readability",
       "competitive_position", "customer_alignment", "compliance" >>

\* the weights, in hundredths
DimensionWeights ==
    [ keyword_optimization |-> 25, usp_effectiveness |-> 20, readability |-> 15,
      competitive_position |-> 15, customer_alignment |-> 15, compliance |-> 10 ]

BulletLengths(bullets) == [i \in 1..Len(bullets) |-> bullets[i].len]

\* fault variant: a bullet total of exactly 500 also earns its half
_score_keyword_optimization_from_500(listing_data) ==
    LET title == listing_data.title
        total_bullet_length == SumSeq(BulletLengths(listing_data.bullets))
        s1 == IF title.len > 80 /\ title.len <= 200 THEN 50 ELSE 0
        s2 == IF total_bullet_length >= 500 THEN 50 ELSE 0
    IN  Min(100, s1 + s2)

_score_keyword_optimization(listing_data) ==
    LET title == listing_data.title
        total_bullet_length == SumSeq(BulletLengths(listing_data.bullets))
        s1 == IF title.len > 80 /\ title.len <= 200 THEN 50 ELSE 0
        s2 == IF total_bullet_length > 500 THEN 50 ELSE 0
    IN  Min(100, s1 + s2)

\* sum(1 for bullet in bullets for keyword in lexicon if keyword in bullet)
KeywordCount(bullets, lexicon) ==
    SumSeq([i \in 1..Len(bullets) |-> Cardinality(bullets[i].words \cap lexicon)])

\* fault variant: the cap at 100 left out
UspScoreUncapped(usp_count) == usp_count * 20 + 40

UspScore(usp_count) == Min(100, usp_count * 20 + 40)

_score_usp_effectiveness(listing_data) ==
    UspScore(KeywordCount(listing_data.bullets, usp_keywords))

_score_readability(listing_data) ==
    LET title == listing_data.title
        s1 == IF 100 <= title.len /\ title.len <= 180 THEN 15 ELSE 0
        s2 == IF title.sep THEN 15 ELSE 0
    IN  Min(100, 70 + s1 + s2)

\* fault variant: the position taken relative to the listing scored before
_score_competitive_position_relative(asin, listing_data) ==
    IF lqs_result = NoValue THEN 70 ELSE 50

\* lines 200-206: a placeholder, the same for every listing
_score_competitive_position(asin, listing_data) == 70

\* fault variant: a listing without bullets counted as fully aligned
_score_customer_alignment_vacuous(listing_data) ==
    IF listing_data.bullets = <<>> THEN 100
    ELSE Min(100, KeywordCount(listing_data.bullets, pain_point_keywords) * 15 + 40)

_score_customer_alignment(listing_data) ==
    Min(100, KeywordCount(listing_data.bullets, pain_point_keywords) * 15 + 40)

\* the banned phrases found in (title + " " + " ".join(bullets)).lower()
BannedFound(listing_data) ==
    (listing_data.title.banned
        \cup UNION { listing_data.bullets[i].banned : i \in 1..Len(listing_data.bullets) }
        \cup listing_data.joined) \cap banned_terms

_score_compliance(listing_data) ==
    LET violations == Cardinality(BannedFound(listing_data))
    IN  IF violations = 0 THEN 100 ELSE IF violations = 1 THEN 80 ELSE 60

\* fault variant: the B boundary taken as open
_assign_grade_open(lqs) ==
    IF lqs >= 9000 THEN "A"
    ELSE IF lqs > 8000 THEN "B"
    ELSE IF lqs >= 7000 THEN "C"
    ELSE IF lqs >= 6000 THEN "D"
    ELSE "F"

\* lqs is in hundredths
_assign_grade(lqs) ==
    IF lqs >= 9000 THEN "A"
    ELSE IF lqs >= 8000 THEN "B"
    ELSE IF lqs >= 7000 THEN "C"
    ELSE IF lqs >= 6000 THEN "D"
    ELSE "F"

DimensionScores(asin, listing_data) ==
    [ keyword_optimization |-> _score_keyword_optimization(listing_data),
      usp_effectiveness    |-> _score_usp_effectiveness(listing_data),
      readability          |-> _score_readability(listing_data),
      competitive_position |-> _score_competitive_position(asin, listing_data),
      customer_alignment   |-> _score_customer_alignment(listing_data),
      compliance           |-> _score_compliance(listing_data) ]

\* sum(dim["score"] * dim["weight"] for dim in dimensions.values()), in hundredths
WeightedSum(dimensions) ==
    SumSeq([i \in 1..Len(DimensionNames) |->
              dimensions[DimensionNames[i]].score * dimensions[DimensionNames[i]].weight])

\* fault variant: the threshold itself not eligible
IsEligibleStrict(lqs) == lqs > MYE_THRESHOLD

\* line 82
IsEligible(lqs) == lqs >= MYE_THRESHOLD

ReportedLqs(lqs) == Round1(lqs)

\* lines 55-70: the six dimensions with their weights and scores
Dimensions(asin, listing_data) ==
    [d \in DOMAIN DimensionWeights |->
        [weight |-> DimensionWeights[d], score |-> DimensionScores(asin, listing_data)[d]]]

\* lines 78-84: the result for the unrounded weighted sum lqs
LqsResult(asin, dimensions, lqs) ==
    [ asin |-> asin,
      lqs |-> ReportedLqs(lqs),
      dimensions |-> dimensions,
      mye_eligible |-> IsEligible(lqs),
      grade |-> _assign_grade(lqs) ]

WeighDimensions(asin, dimensions) == LqsResult(asin, dimensions, WeightedSum(dimensions))

calculate_lqs(asin, listing_data) == WeighDimensions(asin, Dimensions(asin, listing_data))

\* dim_name.replace('_', ' ').title()
DisplayName ==
    [ keyword_optimization |-> "Keyword Optimization",
      usp_effectiveness    |-> "Usp Effectiveness",
      readability          |-> "Readability",
      competitive_position |-> "Competitive Position",
      customer_alignment   |-> "Customer Alignment",
      compliance           |-> "Compliance" ]

\* fault variant: only dimensions below 50 are named
RECURSIVE RecommendationsBelow50(_, _)
RecommendationsBelow50(dimensions, i) ==
    IF i > Len(DimensionNames) THEN <<>>
    ELSE (IF dimensions[DimensionNames[i]].score < 50
          THEN <<[ improve |-> DisplayName[DimensionNames[i]],
                   score |-> dimensions[DimensionNames[i]].score ]>>
          ELSE <<>>) \o RecommendationsBelow50(dimensions, i + 1)

\* lines 114-118, for the dimensions from the i-th on
RECURSIVE Recommendations(_, _)
Recommendations(dimensions, i) ==
    IF i > Len(DimensionNames) THEN <<>>
    ELSE (IF dimensions[DimensionNames[i]].score < 60
          THEN <<[ improve |-> DisplayName[DimensionNames[i]],
                   score |-> dimensions[DimensionNames[i]].score ]>>
          ELSE <<>>) \o Recommendations(dimensions, i + 1)

\* fault variant: a score equal to the threshold also blocked
ValidationAtThresholdBlocked(r) ==
    [ eligible |-> r.mye_eligible,
      lqs |-> r.lqs,
      grade |-> r.grade,
      blockers |-> IF r.lqs <= MYE_THRESHOLD
                   THEN <<[score |-> r.lqs, threshold |-> MYE_THRESHOLD]>>
                   ELSE <<>>,
      recommendations |-> Recommendations(r.dimensions, 1) ]

\* lines 99-120: the verdict built from calculate_lqs's result
Validation(r) ==
    [ eligible |-> r.mye_eligible,
      lqs |-> r.lqs,
      grade |-> r.grade,
      blockers |-> IF r.lqs < MYE_THRESHOLD
                   THEN <<[score |-> r.lqs, threshold |-> MYE_THRESHOLD]>>
                   ELSE <<>>,
      recommendations |-> Recommendations(r.dimensions, 1) ]

validate_for_mye(asin, listing_data) == Validation(calculate_lqs(asin, listing_data))

-----------------------------------------------------------------------------
(* AmazonMYEAutomation: the metrics page and its analysis *)

\* a page element: its text (as characters), or not found by the locator
Element(text) == [found |-> TRUE, text |-> text]
Missing == [found |-> FALSE, text |-> <<>>]

DigitValue ==
    ("0" :> 0 @@ "1" :> 1 @@ "2" :> 2 @@ "3" :> 3 @@ "4" :> 4 @@
     "5" :> 5 @@ "6" :> 6 @@ "7" :> 7 @@ "8" :> 8 @@ "9" :> 9)

\* text.replace(",", "") of a text given as its characters
RECURSIVE RemoveCommas(_)
RemoveCommas(text) ==
    IF text = <<>> THEN <<>>
    ELSE IF Head(text) = "," THEN RemoveCommas(Tail(text))
    ELSE <<Head(text)>> \o RemoveCommas(Tail(text))

IsDigits(text) == text # <<>> /\ \A i \in 1..Len(text) : text[i] \in DOMAIN DigitValue

RECURSIVE DigitsValue(_)
DigitsValue(text) ==
    IF text = <<>> THEN 0
    ELSE DigitsValue(SubSeq(text, 1, Len(text) - 1)) * 10 + DigitValue[text[Len(text)]]

\* int(text): [ok, value]; not ok where int raises ValueError
ParseInt(text) ==
    IF IsDigits(text) THEN [ok |-> TRUE, value |-> DigitsValue(text)]
    ELSE IF text # <<>> /\ Head(text) = "-" /\ IsDigits(Tail(text))
    THEN [ok |-> TRUE, value |-> 0 - DigitsValue(Tail(text))]
    ELSE IF text # <<>> /\ Head(text) = "+" /\ IsDigits(Tail(text))
    THEN [ok |-> TRUE, value |-> DigitsValue(Tail(text))]
    ELSE [ok |-> FALSE, value |-> 0]

\* whether reading the element as a number raises (in text_content or int)
ExtractRaises(page, selector) ==
    ~page[selector].found \/ ~ParseInt(RemoveCommas(page[selector].text)).ok

\* the except branch of _extract_number: a text int() rejects counts as 0
IntOrZero(parsed) == IF parsed.ok THEN parsed.value ELSE 0

\* page: selector -> element.  An exception is swallowed: the number is then 0.
_extract_number(page, selector) ==
    IF ~page[selector].found THEN 0
    ELSE IntOrZero(ParseInt(RemoveCommas(page[selector].text)))

\* rates are in hundredths of a percent: round(a / b * 100, 2)
Rate(a, b) == IF b > 0 THEN RoundHalfEven(a * 10000, b) ELSE 0

\* lines 302-311
VariantMetrics(impressions, clicks, units_ordered) ==
    [ impressions |-> impressions,
      clicks |-> clicks,
      ctr |-> Rate(clicks, impressions),
      units_ordered |-> units_ordered,
      cvr |-> Rate(units_ordered, clicks) ]

_extract_variant_metrics(page, variant_type) ==
    VariantMetrics(_extract_number(page, <<variant_type, "impressions">>),
                   _extract_number(page, <<variant_type, "clicks">>),
                   _extract_number(page, <<variant_type, "units">>))

\* fault variant: one variant with 1000 impressions suffices for HIGH
_calculate_statistical_significance_either(control, treatment) ==
    IF control.impressions < 100 \/ treatment.impressions < 100 THEN "LOW"
    ELSE IF control.impressions >= 1000 \/ treatment.impressions >= 1000 THEN "HIGH"
    ELSE "MEDIUM"

_calculate_statistical_significance(control, treatment) ==
    IF control.impressions < 100 \/ treatment.impressions < 100 THEN "LOW"
    ELSE IF control.impressions >= 1000 /\ treatment.impressions >= 1000 THEN "HIGH"
    ELSE "MEDIUM"

\* fault variant: against a zero base the difference itself is the lift
LiftOverZeroBase(t, c) ==
    IF c > 0 THEN [num |-> (t - c) * 100, den |-> c] ELSE [num |-> (t - c) * 100, den |-> 1]

\* (t - c) / c * 100 if c > 0 else 0, as the fraction num/den with den > 0
Lift(t, c) == IF c > 0 THEN [num |-> (t - c) * 100, den |-> c] ELSE [num |-> 0, den |-> 1]

\* fault variant: a flat click-through rate also wins
WinnerOnFlatCtr(ctr_lift, cvr_lift) ==
    IF ctr_lift.num >= 0 /\ cvr_lift.num >= 0 THEN "TREATMENT" ELSE "CONTROL"

\* fault variant: a gain in either rate wins
WinnerOnEitherLift(ctr_lift, cvr_lift) ==
    IF ctr_lift.num > 0 \/ cvr_lift.num > 0 THEN "TREATMENT" ELSE "CONTROL"

\* line 282
Winner(ctr_lift, cvr_lift) ==
    IF ctr_lift.num > 0 /\ cvr_lift.num >= 0 THEN "TREATMENT" ELSE "CONTROL"

\* lines 286-292.  The lifts are rounded to hundredths from the exact
\* quotient; where the exact quotient lies midway between two hundredths the
\* code's binary quotient decides the direction.
Analysis(winner, ctr_lift, cvr_lift, confidence) ==
    [ winner |-> winner,
      ctr_lift_percent |-> RoundHalfEven(ctr_lift.num * 100, ctr_lift.den),
      cvr_lift_percent |-> RoundHalfEven(cvr_lift.num * 100, cvr_lift.den),
      recommendation |-> IF winner = "TREATMENT" THEN "APPLY" ELSE "ROLLBACK",
      confidence |-> confidence ]

AnalyseLifts(ctr_lift, cvr_lift, confidence) ==
    Analysis(Winner(ctr_lift, cvr_lift), ctr_lift, cvr_lift, confidence)

determine_winner(metrics) ==
    AnalyseLifts(Lift(metrics.treatment.ctr, metrics.control.ctr),
                 Lift(metrics.treatment.cvr, metrics.control.cvr),
                 _calculate_statistical_significance(metrics.control, metrics.treatment))

Selectors == {"control", "treatment"} \X {"impressions", "clicks", "units"}

Cells(ci, cc, cu, ti, tc, tu) ==
    [s \in Selectors |->
        IF s = <<"control", "impressions">> THEN ci
        ELSE IF s = <<"control", "clicks">> THEN cc
        ELSE IF s = <<"control", "units">> THEN cu
        ELSE IF s = <<"treatment", "impressions">> THEN ti
        ELSE IF s = <<"treatment", "clicks">> THEN tc
        ELSE tu]

\* the metrics pages the platform shows
PageInputs ==
    { \* control 10,000 / 200 / 20, treatment 10,000 / 250 / 30
      Cells(Element(<<"1","0",",","0","0","0">>), Element(<<"2","0","0">>),
            Element(<<"2","0">>),
            Element(<<"1","0",",","0","0","0">>), Element(<<"2","5","0">>),
            Element(<<"3","0">>)),
      \* a page with a cell that is no number and an element that is not there
      Cells(Element(<<"5","0","0">>), Element(<<"4","0">>), Element(<<"n","/","a">>),
            Element(<<"1",",","2","0","0">>), Element(<<"6","0">>), Missing) }

\* some element could not be read as a number
ExtractionFailed(page) == \E s \in Selectors : ExtractRaises(page, s)

get_experiment_metrics(page, experiment_id, today) ==
    [ experiment_id |-> experiment_id,
      date |-> today,
      control |-> _extract_variant_metrics(page, "control"),
      treatment |-> _extract_variant_metrics(page, "treatment") ]

-----------------------------------------------------------------------------
(* AmazonMYEAutomation: the session and experiment creation *)

\* The step of an operation at which the platform or the local storage
\* raises: "start" sync_playwright().start(), "launch" chromium.launch,
\* "context" new_context/new_page, "login", "create" a page step of
\* create_experiment, "metrics" the page load of get_experiment_metrics,
\* "list" get_all_experiments, "save" opening the record file for writing,
\* "close" browser.close() in __exit__.
EnterFailures == {"start", "launch", "context"}

\* __enter__: what it has acquired when it returns or raises
Enter(fail) ==
    IF fail = "start"
    THEN [ok |-> FALSE, playwright |-> "none", browser |-> "none",
          calls |-> <<"start">>]
    ELSE IF fail = "launch"
    THEN [ok |-> FALSE, playwright |-> "started", browser |-> "none",
          calls |-> <<"start", "launch">>]
    ELSE IF fail = "context"
    THEN [ok |-> FALSE, playwright |-> "started", browser |-> "open",
          calls |-> <<"start", "launch", "new_context">>]
    ELSE [ok |-> TRUE, playwright |-> "started", browser |-> "open",
          calls |-> <<"start", "launch", "new_context">>]

\* __exit__: browser.close(), then playwright.stop()
Exit(fail) ==
    IF fail = "close"
    THEN [ok |-> FALSE, playwright |-> "started", browser |-> "open"]
    ELSE [ok |-> TRUE, playwright |-> "stopped", browser |-> "closed"]

\* the page after the launch of an experiment: whether its URL holds
\* "experiment", the URL's parts, the id element (its text a string)
NoIdElement == [found |-> FALSE, text |-> ""]

CreatePage(in_url, parts, id_element) ==
    [in_url |-> in_url, parts |-> parts, id_element |-> id_element]

_extract_experiment_id(page, now) ==
    IF page.in_url
    THEN LET n == Len(page.parts)
         IN  IF page.parts[n] # "" THEN page.parts[n] ELSE page.parts[n - 1]
    ELSE IF page.id_element.found THEN page.id_element.text
    ELSE "EXP_" \o ToString(now)

CreatePageInputs ==
    { CreatePage(TRUE, <<"manage-your-experiments", "EXP_1">>, NoIdElement),
      CreatePage(TRUE, <<"manage-your-experiments", "EXP_1_report", "">>, NoIdElement),
      CreatePage(FALSE, <<"home">>, [found |-> TRUE, text |-> "EXP_1_report"]),
      CreatePage(FALSE, <<"home">>, NoIdElement) }

create_experiment(page, now, asin, attribute, control_text, treatment_text, duration_days, traffic_split) ==
    [ experiment_id |-> _extract_experiment_id(page, now),
      asin |-> asin,
      attribute |-> attribute,
      control_text |-> control_text,
      treatment_text |-> treatment_text,
      duration_days |-> duration_days,
      traffic_split |-> traffic_split,
      created_at |-> now,
      status |-> "RUNNING" ]

-----------------------------------------------------------------------------
(* MYEExperimentRunner: local storage *)

ExperimentIds == {"EXP_1", "EXP_1_report"}

\* the report of experiment id is kept in <id>_report.json
ReportStem(experiment_id) == experiment_id \o "_report"

\* the file stems (names without ".json") of the experiments/ directory
FileStems == ExperimentIds \cup { ReportStem(id) : id \in ExperimentIds }

NoFile == [absent |-> TRUE]

Exists(dir, stem) == dir[stem] # NoFile

\* a file holding an experiment record, as _save_experiment writes it
IsRecord(data) == "metrics_history" \in DOMAIN data

\* the outcome of a storage step: the directory, and whether it raised
Stored(dir) == [raised |-> FALSE, files |-> dir]
StorageError(dir, exception) == [raised |-> TRUE, files |-> dir, exception |-> exception]

_save_experiment(dir, metadata, lqs_validation, fail) ==
    IF fail = "save" THEN StorageError(dir, "OSError")
    ELSE Stored([dir EXCEPT ![metadata.experiment_id] =
                    [ metadata |-> metadata,
                      lqs_validation |-> lqs_validation,
                      metrics_history |-> <<>> ]])

HistoryEntry(now, metrics, analysis) ==
    [collected_at |-> now, metrics |-> metrics, analysis |-> analysis]

\* fault variant: the history rewritten instead of appended to
AppendMetricsOverwrite(history, entry) == <<entry>>

\* lines 229-233
AppendMetrics(history, entry) == Append(history, entry)

_save_metrics(dir, experiment_id, metrics, analysis, now, fail) ==
    IF ~Exists(dir, experiment_id) THEN Stored(dir)     \* prints a warning
    ELSE IF ~IsRecord(dir[experiment_id]) THEN StorageError(dir, "KeyError")
    ELSE IF fail = "save" THEN StorageError(dir, "OSError")
    ELSE Stored([dir EXCEPT ![experiment_id].metrics_history =
                    AppendMetrics(@, HistoryEntry(now, metrics, analysis))])

\* lines 225-226: json.load of the record file
LoadRecord(dir, experiment_id) == dir[experiment_id]

\* fault variant: the entry appended to the file as it is at the write
WriteBackOntoFile(dir, experiment_id, data, entry) ==
    [dir EXCEPT ![experiment_id].metrics_history = AppendMetrics(@, entry)]

\* lines 229-236: the entry appended to the loaded data, the data written
WriteBack(dir, experiment_id, data, entry) ==
    [dir EXCEPT ![experiment_id] =
        [data EXCEPT !.metrics_history = AppendMetrics(@, entry)]]

-----------------------------------------------------------------------------
(* MYEExperimentRunner: the operations.  Each yields an outcome            *)
(* [raised, value, files, calls, playwright, browser]: whether it raised, *)
(* what it returned (or the exception), the directory, the platform calls *)
(* it made and the state its session is left in.                          *)

Outcome(raised, value, dir, platform_calls, session) ==
    [ raised |-> raised, value |-> value, files |-> dir, calls |-> platform_calls,
      playwright |-> session.playwright, browser |-> session.browser ]

NoSession == [playwright |-> "none", browser |-> "none"]

Raise(exception) == [exception |-> exception]

\* the `with AmazonMYEAutomation(...) as mye:` statement around a body whose
\* outcome is `body` = [raised, value, files, calls]: the body runs only if
\* __enter__ returned, and __exit__ runs only if the body ran.
WithSession(fail, dir, body) ==
    LET entered == Enter(fail)
        exited == Exit(fail)
    IN  IF ~entered.ok
        THEN Outcome(TRUE, Raise("PlatformError"), dir, entered.calls, entered)
        ELSE IF ~exited.ok
        THEN Outcome(TRUE, Raise("PlatformError"), body.files,
                     entered.calls \o body.calls \o <<"close">>, exited)
        ELSE Outcome(body.raised, body.value, body.files,
                     entered.calls \o body.calls \o <<"close", "stop">>, exited)

Body(raised, value, dir, platform_calls) ==
    [raised |-> raised, value |-> value, files |-> dir, calls |-> platform_calls]

\* fault variant: the gate left open
BlockedNever(lqs_validation) == FALSE

\* fault variant: the gate closed only below 60.0
BlockedBelowSixty(lqs_validation) == lqs_validation.lqs < 6000

\* line 66: the gate
Blocked(lqs_validation) == ~lqs_validation.eligible

\* lines 99-109: the record is saved, then the RUNNING result returned
Created(saved, lqs_validation, experiment_metadata) ==
    IF saved.raised
    THEN Body(TRUE, Raise(saved.exception), saved.files, <<"login", "create_experiment">>)
    ELSE Body(FALSE,
              [ status |-> "RUNNING",
                experiment_id |-> experiment_metadata.experiment_id,
                lqs_validation |-> lqs_validation,
                experiment_metadata |-> experiment_metadata ],
              saved.files, <<"login", "create_experiment">>)

\* lines 86-102: the body of the with statement
CreateBody(dir, env, lqs_validation, experiment_metadata) ==
    IF env.fail = "login"
    THEN Body(TRUE, Raise("PlatformError"), dir, <<"login">>)
    ELSE IF env.fail = "create"
    THEN Body(TRUE, Raise("PlatformError"), dir, <<"login", "create_experiment">>)
    ELSE Created(_save_experiment(dir, experiment_metadata, lqs_validation, env.fail),
                 lqs_validation, experiment_metadata)

\* lines 66-109: run_experiment once the verdict is known
RunGated(dir, asin, control_title, treatment_title, duration_days, env, lqs_validation) ==
    IF Blocked(lqs_validation)
    THEN Outcome(FALSE,
                 [ status |-> "BLOCKED",
                   reason |-> "LQS below MYE threshold",
                   lqs_validation |-> lqs_validation ],
                 dir, <<>>, NoSession)
    ELSE WithSession(env.fail, dir,
            CreateBody(dir, env, lqs_validation,
                create_experiment(env.page, env.now, asin, "TITLE", control_title,
                                  treatment_title, duration_days, 50)))

\* lines 54-58: the title-only listing_data
TreatmentData(treatment_title) ==
    [title |-> treatment_title, bullets |-> <<>>, joined |-> {}]

run_experiment(dir, asin, control_title, treatment_title, duration_days, env) ==
    RunGated(dir, asin, control_title, treatment_title, duration_days, env,
             validate_for_mye(asin, TreatmentData(treatment_title)))

\* lines 137-142: the metrics are saved, then returned with the analysis
Collected(saved, metrics, analysis) ==
    IF saved.raised
    THEN Body(TRUE, Raise(saved.exception), saved.files, <<"login", "get_experiment_metrics">>)
    ELSE Body(FALSE, [metrics |-> metrics, analysis |-> analysis],
              saved.files, <<"login", "get_experiment_metrics">>)

\* lines 128-137
Analysed(dir, experiment_id, env, metrics, analysis) ==
    Collected(_save_metrics(dir, experiment_id, metrics, analysis, env.now, env.fail),
              metrics, analysis)

\* lines 124-142: the body of the with statement
CollectBody(dir, experiment_id, env, metrics) ==
    IF env.fail = "login"
    THEN Body(TRUE, Raise("PlatformError"), dir, <<"login">>)
    ELSE IF env.fail = "metrics"
    THEN Body(TRUE, Raise("PlatformError"), dir, <<"login", "get_experiment_metrics">>)
    ELSE Analysed(dir, experiment_id, env, metrics, determine_winner(metrics))

collect_metrics(dir, experiment_id, env) ==
    WithSession(env.fail, dir,
        CollectBody(dir, experiment_id, env,
            get_experiment_metrics(env.page, experiment_id, env.now)))

ListBody(dir, env) ==
    IF env.fail = "login"
    THEN Body(TRUE, Raise("PlatformError"), dir, <<"login">>)
    ELSE IF env.fail = "list"
    THEN Body(TRUE, Raise("PlatformError"), dir, <<"login", "get_all_experiments">>)
    ELSE Body(FALSE, env.rows, dir, <<"login", "get_all_experiments">>)

list_experiments(dir, env) == WithSession(env.fail, dir, ListBody(dir, env))

\* fault variant: the lookup left out
RecordMissingNever(dir, experiment_id) == FALSE

\* line 169: the record file is looked up before anything else
RecordMissing(dir, experiment_id) == ~Exists(dir, experiment_id)

\* fault variant: the report always recommends APPLY
ReportAlwaysApply(experiment_id, data, latest_metrics, now) ==
    [ experiment_id |-> experiment_id,
      asin |-> data.metadata.asin,
      created_at |-> data.metadata.created_at,
      lqs_score |-> data.lqs_validation.lqs,
      lqs_grade |-> data.lqs_validation.grade,
      control_title |-> data.metadata.control_text,
      treatment_title |-> data.metadata.treatment_text,
      metrics |-> latest_metrics.metrics,
      analysis |-> latest_metrics.analysis,
      recommendation |-> "APPLY",
      generated_at |-> now ]

\* lines 178-190
Report(experiment_id, data, latest_metrics, now) ==
    [ experiment_id |-> experiment_id,
      asin |-> data.metadata.asin,
      created_at |-> data.metadata.created_at,
      lqs_score |-> data.lqs_validation.lqs,
      lqs_grade |-> data.lqs_validation.grade,
      control_title |-> data.metadata.control_text,
      treatment_title |-> data.metadata.treatment_text,
      metrics |-> latest_metrics.metrics,
      analysis |-> latest_metrics.analysis,
      recommendation |-> latest_metrics.analysis.recommendation,
      generated_at |-> now ]

\* lines 193-199: the report is written to <id>_report.json and returned
WriteReport(latest, experiment_id, report) ==
    [latest EXCEPT !.value = report,
                   !.files = [@ EXCEPT ![ReportStem(experiment_id)] = report]]

\* lines 176-199: generate_report once collect_metrics has returned or raised
Reported(dir, experiment_id, env, latest) ==
    IF latest.raised THEN latest
    ELSE IF env.fail = "report"
    THEN [latest EXCEPT !.raised = TRUE, !.value = Raise("OSError")]
    ELSE WriteReport(latest, experiment_id,
                     Report(experiment_id, dir[experiment_id], latest.value, env.now))

generate_report(dir, experiment_id, env) ==
    IF RecordMissing(dir, experiment_id)
    THEN Outcome(FALSE, [error |-> "not found", experiment_id |-> experiment_id],
                 dir, <<>>, NoSession)
    ELSE IF ~Exists(dir, experiment_id)     \* line 172: open() of a missing file
    THEN Outcome(TRUE, Raise("FileNotFoundError"), dir, <<>>, NoSession)
    ELSE Reported(dir, experiment_id, env, collect_metrics(dir, experiment_id, env))

-----------------------------------------------------------------------------
(* Inputs of the lifecycle operations *)

Asins == {"B01TEST"}
ControlTitles == { Text(22, FALSE, {}, {}) }    \* "Old Product Title Here"
Durations == {28}
\* the clock readings (time.time(), datetime.now())
Times == {1}

RunFailures == {"none", "start", "launch", "context", "login", "create", "save", "close"}
CollectFailures == {"none", "start", "launch", "context", "login", "metrics", "save", "close"}
ReportFailures == CollectFailures \cup {"report"}
ListFailures == {"none", "start", "launch", "context", "login", "list", "close"}

RunEnvs == [fail : RunFailures, page : CreatePageInputs, now : Times]
CollectEnvs == [fail : CollectFailures, page : PageInputs, now : Times]
ReportEnvs == [fail : ReportFailures, page : PageInputs, now : Times]
ListEnvs == [fail : ListFailures, rows : {<<>>}, now : Times]

\* a listing that passes the gate: the snapshot kept in the records that
\* earlier runs left in the directory
SeedContent ==
    [ title |-> Text(100, TRUE, {}, {}),
      bullets |-> << Text(251, TRUE, {"unique", "patented", "only", "solve", "eliminate", "prevent"}, {}),
                     Text(250, FALSE, {"unique", "solve"}, {}) >>,
      joined |-> {} ]

SeedRecord(experiment_id) ==
    [ metadata |->
        [ experiment_id |-> experiment_id, asin |-> "B01TEST", attribute |-> "TITLE",
          control_text |-> Text(22, FALSE, {}, {}), treatment_text |-> SeedContent.title,
          duration_days |-> 28, traffic_split |-> 50, created_at |-> 1,
          status |-> "RUNNING" ],
      lqs_validation |-> validate_for_mye("B01TEST", SeedContent),
      metrics_history |-> <<>> ]

\* the experiments/ directory as the runner finds it (os.makedirs with
\* exist_ok): each experiment id has no file, or the record of an earlier run
InitialDirs ==
    { [stem \in FileStems |-> IF stem \in present THEN SeedRecord(stem) ELSE NoFile] :
        present \in SUBSET ExperimentIds }

HistoryFull(dir, experiment_id) ==
    /\ Exists(dir, experiment_id)
    /\ IsRecord(dir[experiment_id])
    /\ Len(dir[experiment_id].metrics_history) >= MaxHistory

-----------------------------------------------------------------------------
(* The lifecycle specification *)

Operation(op, asin, experiment_id, treatment, env, out) ==
    [ op |-> op, asin |-> asin, experiment_id |-> experiment_id, treatment |-> treatment,
      fail |-> env.fail, page |-> IF op = "run_experiment" THEN NoValue
                                  ELSE IF op = "list_experiments" THEN NoValue
                                  ELSE env.page,
      raised |-> out.raised, value |-> out.value, before |-> files ]

Finish(op, asin, experiment_id, treatment, env, out) ==
    /\ files' = out.files
    /\ calls' = out.calls
    /\ playwright' = out.playwright
    /\ browser' = out.browser
    /\ last' = Operation(op, asin, experiment_id, treatment, env, out)
    /\ UNCHANGED <<content, lqs_result, validation, score_log,
                   analysed_metrics, winner_analysis, callers>>

\* The platform is consulted only by a run that passes the gate: for a
\* blocked run its behaviour is left out of the choice.
RunEnvsFor(asin, treatment_title) ==
    IF Blocked(validate_for_mye(asin, TreatmentData(treatment_title)))
    THEN { env \in RunEnvs : env.fail = "none" /\ env.page.parts = <<"home">> /\ ~env.page.id_element.found }
    ELSE RunEnvs

RunExperiment ==
    \E asin \in Asins, control_title \in ControlTitles, treatment_title \in TitleInputs,
       duration_days \in Durations :
        \E env \in RunEnvsFor(asin, treatment_title) :
            \E out \in {run_experiment(files, asin, control_title, treatment_title,
                                       duration_days, env)} :
                Finish("run_experiment", asin, NoValue, treatment_title, env, out)

CollectMetrics ==
    \E experiment_id \in ExperimentIds, env \in CollectEnvs :
        /\ ~HistoryFull(files, experiment_id)
        /\ \E out \in {collect_metrics(files, experiment_id, env)} :
                Finish("collect_metrics", "", experiment_id, NoValue, env, out)

ListExperiments ==
    \E env \in ListEnvs :
        \E out \in {list_experiments(files, env)} :
            Finish("list_experiments", "", NoValue, NoValue, env, out)

GenerateReport ==
    \E experiment_id \in ExperimentIds, env \in ReportEnvs :
        /\ ~HistoryFull(files, experiment_id)
        /\ \E out \in {generate_report(files, experiment_id, env)} :
                Finish("generate_report", "", experiment_id, NoValue, env, out)

NoOperation ==
    [ op |-> "none", asin |-> "", experiment_id |-> NoValue, treatment |-> NoValue, fail |-> "none",
      page |-> NoValue, raised |-> FALSE, value |-> NoValue, before |-> NoValue ]

Init ==
    /\ files \in InitialDirs
    /\ last = NoOperation
    /\ calls = <<>>
    /\ playwright = "none"
    /\ browser = "none"
    /\ content = NoValue
    /\ lqs_result = NoValue
    /\ validation = NoValue
    /\ score_log = <<>>
    /\ callers = NoCallers
    /\ analysed_metrics = NoValue
    /\ winner_analysis = NoValue

Next == RunExperiment \/ CollectMetrics \/ ListExperiments \/ GenerateReport

Spec == Init /\ [][Next]_vars

-----------------------------------------------------------------------------
(* The score engine under test *)

CalculateLqs ==
    /\ \E asin \in Asins : lqs_result' = calculate_lqs(asin, content)
    /\ UNCHANGED <<content, validation, score_log, analysed_metrics, winner_analysis,
                   files, last, calls, playwright, browser, callers>>

ValidateForMye ==
    /\ \E asin \in Asins : validation' = validate_for_mye(asin, content)
    /\ UNCHANGED <<content, lqs_result, score_log, analysed_metrics, winner_analysis,
                   files, last, calls, playwright, browser, callers>>

ScoreInit ==
    /\ content \in ContentInputs
    /\ lqs_result = NoValue
    /\ validation = NoValue
    /\ score_log = <<>>
    /\ callers = NoCallers
    /\ analysed_metrics = NoValue
    /\ winner_analysis = NoValue
    /\ files = [stem \in FileStems |-> NoFile]
    /\ last = NoOperation
    /\ calls = <<>>
    /\ playwright = "none"
    /\ browser = "none"

ScoreNext == CalculateLqs \/ ValidateForMye

ScoreSpec == ScoreInit /\ [][ScoreNext]_vars

-----------------------------------------------------------------------------
(* One score engine called repeatedly, on changing listings *)

DeterminismInputs ==
    [ title : { Text(82, TRUE, {}, {}), Text(100, TRUE, {}, {}) },
      bullets : { <<>>,
                  << Text(250, FALSE, {"unique", "solve"}, {}) >>,
                  << Text(60, TRUE, {"proven", "first", "reduce"}, {"free shipping"}) >> },
      joined : {{}} ]

\* a calculate_lqs call: the arguments, the result, and the listing_data
\* object as the call leaves it
ScoreCall(asin, listing_data, result, after) ==
    [asin |-> asin, content |-> listing_data, result |-> result, after |-> after]

\* calculate_lqs on the present listing, entered in the log
ScoreListing ==
    /\ Len(score_log) < MaxCalls
    /\ UNCHANGED <<content, validation, analysed_metrics, winner_analysis,
                   files, last, calls, playwright, browser, callers>>
    /\ \E asin \in Asins :
          \E result \in {calculate_lqs(asin, content)} :
              /\ lqs_result' = result
              /\ score_log' = Append(score_log, ScoreCall(asin, content, result, content'))

\* the caller turns to another listing
OtherListing ==
    /\ content' \in DeterminismInputs \ {content}
    /\ UNCHANGED <<lqs_result, validation, score_log, analysed_metrics, winner_analysis,
                   files, last, calls, playwright, browser, callers>>

DeterminismInit ==
    /\ content \in DeterminismInputs
    /\ lqs_result = NoValue
    /\ validation = NoValue
    /\ score_log = <<>>
    /\ callers = NoCallers
    /\ analysed_metrics = NoValue
    /\ winner_analysis = NoValue
    /\ files = [stem \in FileStems |-> NoFile]
    /\ last = NoOperation
    /\ calls = <<>>
    /\ playwright = "none"
    /\ browser = "none"

DeterminismNext == ScoreListing \/ ValidateForMye \/ OtherListing

DeterminismSpec == DeterminismInit /\ [][DeterminismNext]_vars

-----------------------------------------------------------------------------
(* The metrics analysis under test *)

\* the counts a variant's cells show
ImpressionInputs == {0, 50, 99, 100, 500, 999, 1000, 10000}
ClickInputs == {0, 40, 200, 250}
UnitInputs == {0, 20, 30}

\* two variants whose click-through rates, 250.00 % and 250.01 %, differ by
\* one hundredth
CloseRateInputs ==
    { VariantMetrics(10000, 25000, 30), VariantMetrics(10000, 25001, 30) }

\* the variant metrics _extract_variant_metrics builds from such counts
VariantInputs ==
    { VariantMetrics(impressions, clicks, units_ordered) :
        impressions \in ImpressionInputs, clicks \in ClickInputs,
        units_ordered \in UnitInputs }
    \cup CloseRateInputs

MetricsInputs == [control : VariantInputs, treatment : VariantInputs]

DetermineWinner ==
    /\ winner_analysis' = determine_winner(analysed_metrics)
    /\ UNCHANGED <<content, lqs_result, validation, score_log, analysed_metrics,
                   files, last, calls, playwright, browser, callers>>

AnalysisInit ==
    /\ analysed_metrics \in MetricsInputs
    /\ winner_analysis = NoValue
    /\ content = NoValue
    /\ lqs_result = NoValue
    /\ validation = NoValue
    /\ score_log = <<>>
    /\ callers = NoCallers
    /\ files = [stem \in FileStems |-> NoFile]
    /\ last = NoOperation
    /\ calls = <<>>
    /\ playwright = "none"
    /\ browser = "none"

AnalysisNext == DetermineWinner

AnalysisSpec == AnalysisInit /\ [][AnalysisNext]_vars

-----------------------------------------------------------------------------
(* Two collect_metrics calls on one experiment id, interleaved at the       *)
(* accesses to the record file.  _save_metrics takes no lock.               *)

\* the experiment id both callers name
RacedId == "EXP_1"

\* lines 123-128: the session, the metrics and their analysis
FetchMetrics(p) ==
    /\ callers[p].pc = "idle"
    /\ \E page \in PageInputs, now \in Times :
          \E metrics \in {get_experiment_metrics(page, RacedId, now)} :
              callers' = [callers EXCEPT ![p] =
                            [@ EXCEPT !.pc = "fetched", !.metrics = metrics,
                                      !.analysis = determine_winner(metrics)]]
    /\ UNCHANGED <<content, lqs_result, validation, score_log, analysed_metrics,
                   winner_analysis, files, last, calls, playwright, browser>>

\* lines 221-226: without a file a warning and the return, else the load
ReadRecord(p) ==
    /\ callers[p].pc = "fetched"
    /\ callers' = [callers EXCEPT ![p] =
                      IF ~Exists(files, RacedId)
                      THEN [@ EXCEPT !.pc = "returned"]
                      ELSE [@ EXCEPT !.pc = "loaded",
                                     !.data = LoadRecord(files, RacedId)]]
    /\ UNCHANGED <<content, lqs_result, validation, score_log, analysed_metrics,
                   winner_analysis, files, last, calls, playwright, browser>>

\* lines 229-236 and 139-142: the append, the write, the return
WriteRecord(p) ==
    /\ callers[p].pc = "loaded"
    /\ \E now \in Times :
          \E entry \in {HistoryEntry(now, callers[p].metrics, callers[p].analysis)} :
              /\ files' = WriteBack(files, RacedId, callers[p].data, entry)
              /\ callers' = [callers EXCEPT ![p] =
                                [@ EXCEPT !.pc = "returned", !.entry = entry]]
    /\ UNCHANGED <<content, lqs_result, validation, score_log, analysed_metrics,
                   winner_analysis, last, calls, playwright, browser>>

RaceInit ==
    /\ files \in InitialDirs
    /\ callers = NoCallers
    /\ last = NoOperation
    /\ calls = <<>>
    /\ playwright = "none"
    /\ browser = "none"
    /\ content = NoValue
    /\ lqs_result = NoValue
    /\ validation = NoValue
    /\ score_log = <<>>
    /\ analysed_metrics = NoValue
    /\ winner_analysis = NoValue

RaceNext == \E p \in Callers : FetchMetrics(p) \/ ReadRecord(p) \/ WriteRecord(p)

RaceSpec == RaceInit /\ [][RaceNext]_vars

-----------------------------------------------------------------------------
(* Properties of the lifecycle (Spec) *)

EnterOrLogin == {"start", "launch", "context", "login"}

\* the verdict of the gate for the treatment title of the last run_experiment
LastVerdict == validate_for_mye(last.asin, TreatmentData(last.treatment))

\* C1: run_experiment reaches the platform and the directory only with an
\* eligible verdict: with an ineligible one it returns BLOCKED carrying the
\* verdict, makes no platform call, opens no session and leaves every file
\* as it was.
C1_BlockedRunHasNoEffect ==
    last.op = "run_experiment" =>
        /\ ~LastVerdict.eligible =>
              /\ ~last.raised
              /\ last.value.status = "BLOCKED"
              /\ last.value.lqs_validation = LastVerdict
              /\ calls = <<>>
              /\ playwright = "none" /\ browser = "none"
              /\ files = last.before
        /\ (calls # <<>> \/ files # last.before) => LastVerdict.eligible

\* a blocked run over a directory that holds a record
C1_Witness ==
    /\ last.op = "run_experiment"
    /\ ~last.raised
    /\ last.value.status = "BLOCKED"
    /\ \E id \in ExperimentIds : Exists(files, id)

\* the treatment title of test_full_experiment_workflow (82 characters,
\* pipe-separated)
FullWorkflowTitle == Text(82, TRUE, {}, {})

\* C2: for the well-formed title of the full-workflow test and a platform
\* that succeeds, run_experiment returns RUNNING with an experiment id and an
\* eligible verdict, and the record is persisted.
C2_RunningReached ==
    (last.op = "run_experiment" /\ last.treatment = FullWorkflowTitle /\ last.fail = "none") =>
        /\ ~last.raised
        /\ last.value.status = "RUNNING"
        /\ last.value.lqs_validation.eligible
        /\ Exists(files, last.value.experiment_id)

\* C3: collect_metrics for an id without a record fails (NotFound): it
\* returns no metrics+analysis result and leaves the directory unchanged.
C3_CollectWithoutRecordFails ==
    (last.op = "collect_metrics" /\ ~Exists(last.before, last.experiment_id)) =>
        /\ last.raised
        /\ files = last.before

\* the record of the experiment the last operation was about, before and after
RecordBefore == last.before[last.experiment_id]
RecordAfter == files[last.experiment_id]

\* C4: a successful collect_metrics for an id with a persisted record
\* lengthens the record's metrics_history by exactly one entry, placed last,
\* holding the metrics and the analysis the call returned; the earlier
\* entries stay as they were.
C4_CollectAppendsOne ==
    (/\ last.op = "collect_metrics"
     /\ ~last.raised
     /\ Exists(last.before, last.experiment_id)
     /\ IsRecord(RecordBefore)) =>
        /\ IsRecord(RecordAfter)
        /\ Len(RecordAfter.metrics_history) = Len(RecordBefore.metrics_history) + 1
        /\ SubSeq(RecordAfter.metrics_history, 1, Len(RecordBefore.metrics_history))
              = RecordBefore.metrics_history
        /\ RecordAfter.metrics_history[Len(RecordAfter.metrics_history)].metrics
              = last.value.metrics
        /\ RecordAfter.metrics_history[Len(RecordAfter.metrics_history)].analysis
              = last.value.analysis

\* the second successful collection for a record
C4_Witness ==
    /\ last.op = "collect_metrics"
    /\ ~last.raised
    /\ Exists(last.before, last.experiment_id)
    /\ IsRecord(RecordBefore)
    /\ Len(RecordBefore.metrics_history) = 1
    /\ Len(RecordAfter.metrics_history) = 2

C6_PlatformFailurePropagates ==
    /\ (/\ last.op = "run_experiment"
        /\ calls # <<>>
        /\ last.fail \in EnterOrLogin \cup {"create"}) =>
            (last.raised /\ files = last.before)
    /\ (/\ last.op = "collect_metrics"
        /\ (last.fail \in EnterOrLogin \cup {"metrics"} \/ ExtractionFailed(last.page))) =>
            (last.raised /\ files = last.before)

\* C7: when a lifecycle operation has finished, normally or not, the session
\* it acquired is released: the browser closed and the driver stopped.
C7_SessionReleased ==
    last.op # "none" =>
        /\ playwright \in {"none", "stopped"}
        /\ browser \in {"none", "closed"}

-----------------------------------------------------------------------------
(* Properties of the score engine (ScoreSpec) *)

Scored == "lqs" \in DOMAIN lqs_result
Validated == "eligible" \in DOMAIN validation

\* C8: the eligibility flag of calculate_lqs and of validate_for_mye is true
\* exactly when the reported (one-decimal) score is at least 70.0.
C8_EligibleIffReportedAtLeast70 ==
    /\ Scored => (lqs_result.mye_eligible <=> lqs_result.lqs >= 7000)
    /\ Validated => (validation.eligible <=> validation.lqs >= 7000)

\* a content whose reported score is exactly 70.0, found eligible
C8_Witness ==
    /\ Scored /\ lqs_result.lqs = 7000 /\ lqs_result.mye_eligible
    /\ Validated /\ validation.eligible

\* C9: the grade is the one the thresholds assign to the reported score
\* (A from 90, B from 80, C from 70, D from 60, else F), so eligible results
\* have grade A, B or C and ineligible ones D or F.
C9_GradeMatchesReportedScore ==
    Scored =>
        /\ lqs_result.grade = "A" <=> lqs_result.lqs >= 9000
        /\ lqs_result.grade = "B" <=> (8000 <= lqs_result.lqs /\ lqs_result.lqs < 9000)
        /\ lqs_result.grade = "C" <=> (7000 <= lqs_result.lqs /\ lqs_result.lqs < 8000)
        /\ lqs_result.grade = "D" <=> (6000 <= lqs_result.lqs /\ lqs_result.lqs < 7000)
        /\ lqs_result.grade = "F" <=> lqs_result.lqs < 6000
        /\ lqs_result.mye_eligible => lqs_result.grade \in {"A", "B", "C"}
        /\ ~lqs_result.mye_eligible => lqs_result.grade \in {"D", "F"}

\* a content whose reported score is exactly 80.0, graded B
C9_Witness == Scored /\ lqs_result.lqs = 8000 /\ lqs_result.grade = "B"

\* the weighted sum of the six dimension scores of a result, in hundredths
C10_Sum(r) ==
    25 * r.dimensions.keyword_optimization.score
    + 20 * r.dimensions.usp_effectiveness.score
    + 15 * r.dimensions.readability.score
    + 15 * r.dimensions.competitive_position.score
    + 15 * r.dimensions.customer_alignment.score
    + 10 * r.dimensions.compliance.score

\* C10: calculate_lqs returns exactly six dimensions with the weights 0.25,
\* 0.20, 0.15, 0.15, 0.15, 0.10 (summing to 1.0), every dimension score in
\* [0, 100], and an overall score that is the weighted sum rounded to one
\* decimal place (the nearest tenth), hence in [0, 100].
C10_SixWeightedDimensions ==
    Scored =>
        /\ DOMAIN lqs_result.dimensions =
              { "keyword_optimization", "usp_effectiveness", "readability",
                "competitive_position", "customer_alignment", "compliance" }
        /\ Cardinality(DOMAIN lqs_result.dimensions) = 6
        /\ [d \in DOMAIN lqs_result.dimensions |-> lqs_result.dimensions[d].weight] =
              [ keyword_optimization |-> 25, usp_effectiveness |-> 20, readability |-> 15,
                competitive_position |-> 15, customer_alignment |-> 15, compliance |-> 10 ]
        /\ 25 + 20 + 15 + 15 + 15 + 10 = 100
        /\ \A d \in DOMAIN lqs_result.dimensions :
              0 <= lqs_result.dimensions[d].score /\ lqs_result.dimensions[d].score <= 100
        /\ lqs_result.lqs % 10 = 0
        /\ 2 * lqs_result.lqs - 2 * C10_Sum(lqs_result) \in (0 - 10)..10
        /\ 0 <= lqs_result.lqs /\ lqs_result.lqs <= 10000

\* a content with more USP words than the cap of the dimension admits, and
\* a weighted sum that is not a whole number of tenths
C10_Witness ==
    /\ Scored
    /\ KeywordCount(content.bullets, usp_keywords) > 3
    /\ lqs_result.dimensions.usp_effectiveness.score = 100
    /\ C10_Sum(lqs_result) % 10 # 0

\* C11: the verdict of validate_for_mye carries calculate_lqs's eligibility
\* flag, and its blockers list holds exactly one entry, naming the score and
\* the threshold, when the reported score is below 70.0 and is empty
\* otherwise; so the verdict is ineligible exactly when it has a blocker.
C11_BlockersMirrorEligibility ==
    Validated =>
        /\ \A asin \in Asins :
              validation.eligible = calculate_lqs(asin, content).mye_eligible
        /\ validation.lqs < 7000 =>
              validation.blockers = <<[score |-> validation.lqs, threshold |-> 7000]>>
        /\ validation.lqs >= 7000 => validation.blockers = <<>>
        /\ ~validation.eligible <=> validation.blockers # <<>>

\* a verdict just below the threshold, with its one blocker
C11_Witness ==
    /\ Validated
    /\ validation.lqs >= 6500 /\ validation.lqs < 7000
    /\ Len(validation.blockers) = 1
    /\ ~validation.eligible

-----------------------------------------------------------------------------
(* Properties of the metrics analysis (AnalysisSpec) *)

WinnerDetermined == winner_analysis # NoValue

\* the click-through lift of the analysed metrics is strictly positive
CtrLiftPositive ==
    /\ analysed_metrics.control.ctr > 0
    /\ analysed_metrics.treatment.ctr > analysed_metrics.control.ctr

\* the conversion lift of the analysed metrics is negative
CvrLiftNegative ==
    /\ analysed_metrics.control.cvr > 0
    /\ analysed_metrics.treatment.cvr < analysed_metrics.control.cvr

\* C12: determine_winner names TREATMENT exactly when the click-through lift
\* is strictly positive and the conversion lift is not negative, CONTROL in
\* every other case; it recommends APPLY exactly for TREATMENT and ROLLBACK
\* exactly for CONTROL.
C12_WinnerRule ==
    WinnerDetermined =>
        /\ winner_analysis.winner \in {"TREATMENT", "CONTROL"}
        /\ winner_analysis.winner = "TREATMENT" <=> (CtrLiftPositive /\ ~CvrLiftNegative)
        /\ winner_analysis.recommendation = "APPLY" <=> winner_analysis.winner = "TREATMENT"
        /\ winner_analysis.recommendation = "ROLLBACK" <=> winner_analysis.winner = "CONTROL"

\* the metrics of test_winner_determination_treatment_wins: a lift of 25 %
C12_Witness ==
    /\ WinnerDetermined
    /\ analysed_metrics.control = VariantMetrics(10000, 200, 20)
    /\ analysed_metrics.treatment = VariantMetrics(10000, 250, 30)
    /\ winner_analysis.winner = "TREATMENT"
    /\ winner_analysis.ctr_lift_percent = 2500
    /\ winner_analysis.recommendation = "APPLY"

\* C13: with a control click-through rate of 0 the click-through lift is 0
\* and determine_winner names CONTROL and recommends ROLLBACK whatever the
\* treatment's rates; with a control conversion rate of 0 the conversion
\* lift is 0.
C13_ZeroControlRate ==
    WinnerDetermined =>
        /\ analysed_metrics.control.ctr = 0 =>
              /\ winner_analysis.ctr_lift_percent = 0
              /\ winner_analysis.winner = "CONTROL"
              /\ winner_analysis.recommendation = "ROLLBACK"
        /\ analysed_metrics.control.cvr = 0 => winner_analysis.cvr_lift_percent = 0

\* a control without clicks against a treatment with a click-through rate of
\* 25 % and a conversion rate of 12 %
C13_Witness ==
    /\ WinnerDetermined
    /\ analysed_metrics.control.ctr = 0
    /\ analysed_metrics.control.cvr = 0
    /\ analysed_metrics.treatment = VariantMetrics(1000, 250, 30)
    /\ winner_analysis.winner = "CONTROL"

\* C14: the confidence is LOW when either variant has fewer than 100
\* impressions, HIGH when both have at least 1000, MEDIUM otherwise, and it
\* is the same for all clicks, units and rates shown with these impressions.
C14_ConfidenceFromImpressions ==
    WinnerDetermined =>
        /\ (analysed_metrics.control.impressions < 100
              \/ analysed_metrics.treatment.impressions < 100)
           => winner_analysis.confidence = "LOW"
        /\ (analysed_metrics.control.impressions >= 1000
              /\ analysed_metrics.treatment.impressions >= 1000)
           => winner_analysis.confidence = "HIGH"
        /\ (analysed_metrics.control.impressions >= 100
              /\ analysed_metrics.treatment.impressions >= 100
              /\ (analysed_metrics.control.impressions < 1000
                    \/ analysed_metrics.treatment.impressions < 1000))
           => winner_analysis.confidence = "MEDIUM"
        /\ \A cc \in ClickInputs, tc \in ClickInputs, cu \in UnitInputs, tu \in UnitInputs :
              determine_winner(
                 [ control |-> VariantMetrics(analysed_metrics.control.impressions, cc, cu),
                   treatment |-> VariantMetrics(analysed_metrics.treatment.impressions, tc, tu) ]
              ).confidence = winner_analysis.confidence

\* control 500 impressions, treatment 1000: MEDIUM
C14_Witness ==
    /\ WinnerDetermined
    /\ analysed_metrics.control.impressions = 500
    /\ analysed_metrics.treatment.impressions = 1000
    /\ winner_analysis.confidence = "MEDIUM"

\* a variant whose counts break the ordering clicks <= impressions,
\* units ordered <= clicks
Malformed(variant) ==
    variant.clicks > variant.impressions \/ variant.units_ordered > variant.clicks

\* C15: metrics that break the ordering of the counts are rejected: for them
\* determine_winner yields an error and no winner analysis.
C15_MalformedMetricsRejected ==
    (/\ WinnerDetermined
     /\ Malformed(analysed_metrics.control) \/ Malformed(analysed_metrics.treatment))
    => /\ "error" \in DOMAIN winner_analysis
       /\ "winner" \notin DOMAIN winner_analysis

-----------------------------------------------------------------------------
(* Further properties of the score engine (ScoreSpec) *)

\* the total length of the bullets of the content under test
TotalBulletLength == SumSeq(BulletLengths(content.bullets))

\* C16: the keyword-optimization score is 50 for a title longer than 80 and
\* at most 200 characters plus 50 for a bullet total above 500: titles of 80
\* or 201 characters and a total of exactly 500 earn nothing, 81, 200 and 501
\* earn their 50, and the score is one of 0, 50, 100.
C16_KeywordScore ==
    Scored =>
        /\ lqs_result.dimensions.keyword_optimization.score =
              50 * (IF 80 < content.title.len /\ content.title.len <= 200 THEN 1 ELSE 0)
              + 50 * (IF TotalBulletLength > 500 THEN 1 ELSE 0)
        /\ lqs_result.dimensions.keyword_optimization.score \in {0, 50, 100}
        /\ (content.title.len \in {80, 201} /\ TotalBulletLength = 500)
              => lqs_result.dimensions.keyword_optimization.score = 0
        /\ (content.title.len \in {81, 200} /\ TotalBulletLength = 501)
              => lqs_result.dimensions.keyword_optimization.score = 100

\* a title of 200 characters with bullets of exactly 500: only the title counts
C16_Witness ==
    /\ Scored
    /\ content.title.len = 200
    /\ TotalBulletLength = 500
    /\ lqs_result.dimensions.keyword_optimization.score = 50

-----------------------------------------------------------------------------
(* Further properties of the lifecycle (Spec) *)

\* history h is a prefix of history g
IsPrefix(h, g) == Len(h) <= Len(g) /\ SubSeq(g, 1, Len(h)) = h

\* the file of id held a record with at least one history entry before the
\* last operation
HadHistory(id) ==
    /\ Exists(last.before, id)
    /\ IsRecord(last.before[id])
    /\ last.before[id].metrics_history # <<>>

\* C18: no lifecycle operation removes, reorders or rewrites a history
\* entry: a record that held entries before the operation is still a record
\* after it, and its earlier history is a prefix of its later one.
C18_HistoryOnlyGrows ==
    last.op # "none" =>
        \A id \in FileStems :
            HadHistory(id) =>
                /\ Exists(files, id)
                /\ IsRecord(files[id])
                /\ IsPrefix(last.before[id].metrics_history, files[id].metrics_history)

\* the last operation was a generate_report that returned a report
ReportGenerated ==
    /\ last.op = "generate_report"
    /\ ~last.raised
    /\ "error" \notin DOMAIN last.value

\* the last entry of the history of the record the last operation was about
LatestEntry ==
    RecordAfter.metrics_history[Len(RecordAfter.metrics_history)]

\* C19: a successful generate_report(id) collects metrics once: it appends
\* exactly one entry to id's history, and the report it returns and writes
\* carries the record's asin, titles, score and grade, the metrics and the
\* analysis of that new last entry, and the analysis's recommendation.
C19_ReportFromOneCollection ==
    ReportGenerated =>
        /\ IsRecord(RecordBefore) /\ IsRecord(RecordAfter)
        /\ Len(RecordAfter.metrics_history) = Len(RecordBefore.metrics_history) + 1
        /\ IsPrefix(RecordBefore.metrics_history, RecordAfter.metrics_history)
        /\ Len(SelectSeq(calls, LAMBDA c : c = "get_experiment_metrics")) = 1
        /\ files[ReportStem(last.experiment_id)] = last.value
        /\ last.value.experiment_id = last.experiment_id
        /\ last.value.asin = RecordBefore.metadata.asin
        /\ last.value.control_title = RecordBefore.metadata.control_text
        /\ last.value.treatment_title = RecordBefore.metadata.treatment_text
        /\ last.value.lqs_score = RecordBefore.lqs_validation.lqs
        /\ last.value.lqs_grade = RecordBefore.lqs_validation.grade
        /\ last.value.metrics = LatestEntry.metrics
        /\ last.value.analysis = LatestEntry.analysis
        /\ last.value.recommendation = last.value.analysis.recommendation

\* a report generated for a record with one earlier entry, recommending
\* ROLLBACK
C19_Witness ==
    /\ ReportGenerated
    /\ Len(RecordBefore.metrics_history) = 1
    /\ Len(RecordAfter.metrics_history) = 2
    /\ last.value.recommendation = "ROLLBACK"
    /\ Exists(files, ReportStem(last.experiment_id))

-----------------------------------------------------------------------------
(* Further properties of the metrics analysis (AnalysisSpec) *)

\* the analysis of the analysed metrics with the two variants exchanged
SwappedAnalysis ==
    determine_winner([ control |-> analysed_metrics.treatment,
                       treatment |-> analysed_metrics.control ])

TreatmentWon == WinnerDetermined /\ winner_analysis.winner = "TREATMENT"

-----------------------------------------------------------------------------
(* Properties of interleaved collections (RaceSpec) *)

\* the callers that loaded the record, wrote it back and returned
Writers == { p \in Callers : callers[p].pc = "returned" /\ callers[p].data # NoValue }

\* both callers loaded the same history, wrote, and returned
BothWroteSameRead ==
    /\ Writers = Callers
    /\ \A p \in Callers, q \in Callers :
          callers[p].data.metrics_history = callers[q].data.metrics_history

\* C22: the append of collect_metrics is an unlocked read-modify-write: the
\* record file holds the history some writer loaded plus that writer's one
\* entry, so when both callers loaded the record before either wrote it,
\* both return normally and the history has grown by one entry only.
C22_UnlockedAppendLosesEntry ==
    /\ Writers # {} =>
          \E p \in Writers :
              files[RacedId].metrics_history =
                  Append(callers[p].data.metrics_history, callers[p].entry)
    /\ BothWroteSameRead =>
          \A p \in Callers :
              Len(files[RacedId].metrics_history) = Len(callers[p].data.metrics_history) + 1

\* both calls have returned after writing, each with an entry of its own,
\* and the history holds one entry: the other is lost
C22_Witness ==
    /\ BothWroteSameRead
    /\ callers["first"].entry # callers["second"].entry
    /\ \A p \in Callers : callers[p].data.metrics_history = <<>>
    /\ Len(files[RacedId].metrics_history) = 1

-----------------------------------------------------------------------------
(* Properties of title-only listings (ScoreSpec) *)

-----------------------------------------------------------------------------
(* Properties of the recommendations (ScoreSpec) *)

\* the dimension scores of the content under test
ContentScores == DimensionScores(CHOOSE asin \in Asins : TRUE, content)

\* the dimensions of the content under test that score below 60
WeakDimensions == { d \in DOMAIN DimensionWeights : ContentScores[d] < 60 }

\* C24: the verdict holds one recommendation, naming the dimension and its
\* score, for each dimension scoring below 60 and none for any other; when
\* all six dimensions score at least 60 the overall score is at least 70.0,
\* so every ineligible verdict holds at least one recommendation.
C24_RecommendationsForWeakDimensions ==
    Validated =>
        /\ Len(validation.recommendations) = Cardinality(WeakDimensions)
        /\ \A d \in WeakDimensions :
              \E i \in 1..Len(validation.recommendations) :
                  validation.recommendations[i] =
                      [improve |-> DisplayName[d], score |-> ContentScores[d]]
        /\ WeakDimensions = {} => (validation.lqs >= 7000 /\ validation.eligible)
        /\ ~validation.eligible => validation.recommendations # <<>>

\* an ineligible verdict whose only weak dimension is keyword optimization
C24_Witness ==
    /\ Validated
    /\ ~validation.eligible
    /\ WeakDimensions = {"keyword_optimization"}
    /\ Len(validation.recommendations) = 1
    /\ validation.recommendations[1].improve = "Keyword Optimization"
    /\ validation.recommendations[1].score = 50

\* the last operation was collect_metrics(id) or generate_report(id)
CollectedOrReported == last.op \in {"collect_metrics", "generate_report"}

\* the file of experiment id held a record before the last operation
HadRecord(id) ==
    /\ Exists(last.before, id)
    /\ IsRecord(last.before[id])

\* id's own record keeps its metadata and its eligibility verdict snapshot
OwnRecordKept(id) ==
    HadRecord(id) =>
        /\ Exists(files, id)
        /\ IsRecord(files[id])
        /\ files[id].metadata = last.before[id].metadata
        /\ files[id].lqs_validation = last.before[id].lqs_validation

\* the record of every experiment id other than id is left as it was
OtherRecordsKept(id) ==
    \A other \in ExperimentIds \ {id} :
        HadRecord(other) => files[other] = last.before[other]

\* C25: collect_metrics(id) and generate_report(id) change, among the
\* experiment records, only the metrics history of id's own record: its
\* metadata and verdict snapshot stay as written, and the record of every
\* other experiment id, "<id>_report" included, is left unchanged.
C25_OnlyOwnHistoryChanges ==
    CollectedOrReported =>
        /\ OwnRecordKept(last.experiment_id)
        /\ OtherRecordsKept(last.experiment_id)

=============================================================================
